---- MODULE Spec2Model ----
(***************************************************************************)
(* A model of src/app.py: the channel resolver, the title and video        *)
(* fetchers, the SQLite store and the two ingestion entry points.          *)
(*                                                                         *)
(* Text that the code inspects character by character (user input, URLs,   *)
(* channel ids, page bodies, channel titles) is a sequence of one-character*)
(* strings, so that strip, fullmatch, search and parse_qs are computed.    *)
(* Text the code only copies or appends to (video ids, video metadata, the *)
(* API key) is a TLA+ string.                                              *)
(***************************************************************************)
EXTENDS Integers, Sequences, FiniteSets, TLC

VARIABLES
    channels,   \* the channels table: a sequence of rows in rowid order
    videos,     \* the videos table: a sequence of rows in rowid order
    now,        \* the clock read by utc_now_iso()
    env,        \* the input and the network behaviour the next call will meet
    last,       \* what the last completed call was given, returned and requested
    pc          \* position of the scripted end-to-end scenario

vars == <<channels, videos, now, env, last, pc>>

----------------------------------------------------------------------------
(* Literals of the source. *)

IdBodyLen == 22

IdChars == {"0", "1", "2", "3", "4", "5", "6", "7", "8", "9", "A", "B", "C", "D", "E", "F", "G", "H", "I", "J", "K", "L", "M", "N", "O", "P", "Q", "R", "S", "T", "U", "V", "W", "X", "Y", "Z", "a", "b", "c", "d", "e", "f", "g", "h", "i", "j", "k", "l", "m", "n", "o", "p", "q", "r", "s", "t", "u", "v", "w", "x", "y", "z", "_", "-"}

Whitespace == {" ", "\t", "\n", "\r"}

LitYoutubeCom == <<"y", "o", "u", "t", "u", "b", "e", ".", "c", "o", "m">>

LitYoutuBe == <<"y", "o", "u", "t", "u", ".", "b", "e">>

LitChannelPath == <<"/", "c", "h", "a", "n", "n", "e", "l", "/">>

LitChannelKey == <<"c", "h", "a", "n", "n", "e", "l">>

LitAt == <<"@">>

LitHttp == <<"h", "t", "t", "p">>

LitHttps == <<"h", "t", "t", "p", "s", ":", "/", "/">>

LitAbout == <<"/", "a", "b", "o", "u", "t">>

LitSite == <<"h", "t", "t", "p", "s", ":", "/", "/", "w", "w", "w", ".", "y", "o", "u", "t", "u", "b", "e", ".", "c", "o", "m", "/">>

LitMarker == <<"\"", "c", "h", "a", "n", "n", "e", "l", "I", "d", "\"", ":", "\"">>

LitTopic == <<" ", "-", " ", "T", "o", "p", "i", "c">>

LitChannelSpace == <<"C", "h", "a", "n", "n", "e", "l", " ">>

LitChannelUrl == LitSite \o <<"c", "h", "a", "n", "n", "e", "l", "/">>

----------------------------------------------------------------------------
(* Python's string operations, on sequences of characters. *)

SetMin(S) == CHOOSE x \in S : \A y \in S : x <= y

\* s[i:i+len(sub)] == sub
StartsAt(s, sub, i) ==
    /\ i >= 1
    /\ i + Len(sub) - 1 <= Len(s)
    /\ \A k \in 1..Len(sub) : s[i + k - 1] = sub[k]

\* sub in s
Contains(s, sub) == \E i \in 1..(Len(s) + 1) : StartsAt(s, sub, i)

\* s.startswith(sub)
StartsWith(s, sub) == StartsAt(s, sub, 1)

\* s.endswith(sub)
EndsWith(s, sub) == Len(sub) <= Len(s) /\ StartsAt(s, sub, Len(s) - Len(sub) + 1)

\* s.lstrip()
RECURSIVE lstrip(_)
lstrip(s) == IF s # <<>> /\ s[1] \in Whitespace THEN lstrip(Tail(s)) ELSE s

\* s.rstrip()
RECURSIVE rstrip(_)
rstrip(s) ==
    IF s # <<>> /\ s[Len(s)] \in Whitespace
    THEN rstrip(SubSeq(s, 1, Len(s) - 1))
    ELSE s

\* s.strip()
strip(s) == rstrip(lstrip(s))

\* s.rstrip("/")
RECURSIVE rstrip_slash(_)
rstrip_slash(s) ==
    IF s # <<>> /\ s[Len(s)] = "/"
    THEN rstrip_slash(SubSeq(s, 1, Len(s) - 1))
    ELSE s

\* s.split(c, 1): the part before the first c and the part after it
\* (the whole of s and nothing when c does not occur)
Partition(s, c) ==
    LET at == {i \in 1..Len(s) : s[i] = c}
    IN  IF at = {}
        THEN [found |-> FALSE, head |-> s, tail |-> <<>>]
        ELSE [found |-> TRUE,
              head |-> SubSeq(s, 1, SetMin(at) - 1),
              tail |-> SubSeq(s, SetMin(at) + 1, Len(s))]

\* s.split(c)
RECURSIVE Split(_, _)
Split(s, c) ==
    LET p == Partition(s, c)
    IN  IF p.found THEN <<p.head>> \o Split(p.tail, c) ELSE <<s>>

\* s.replace(old, "")
RECURSIVE Remove(_, _)
Remove(s, old) ==
    IF s = <<>> THEN <<>>
    ELSE IF StartsWith(s, old) THEN Remove(SubSeq(s, Len(old) + 1, Len(s)), old)
    ELSE <<s[1]>> \o Remove(Tail(s), old)

----------------------------------------------------------------------------
(* Identifier validator and URL parser. *)

\* the pattern UC[0-9A-Za-z_-]{22} matches s at position i
MatchIdAt(s, i) ==
    /\ i >= 1
    /\ i + 1 + IdBodyLen <= Len(s)
    /\ s[i] = "U"
    /\ s[i + 1] = "C"
    /\ \A k \in 2..(1 + IdBodyLen) : s[i + k] \in IdChars

\* the text the pattern matched at position i
IdAt(s, i) == SubSeq(s, i, i + 1 + IdBodyLen)

is_channel_id(text) ==
    LET t == strip(text)
    IN  Len(t) = 2 + IdBodyLen /\ MatchIdAt(t, 1)

\* urlparse(url).query: the fragment is cut at the first "#", then the
\* query is what follows the first "?"
urlparse_query(url) == Partition(Partition(url, "#").head, "?").tail

\* unquote of a name or value: "+" is a space (the model's texts hold no "%")
unquote_plus(s) == [i \in 1..Len(s) |-> IF s[i] = "+" THEN " " ELSE s[i]]

\* parse_qs(query)[name]: the values given to name, in order; pairs with
\* no "=" or with a blank value are dropped
parse_qs(query, name) ==
    LET pairs == Split(query, "&")
        Pair(f) == Partition(f, "=")
        kept == SelectSeq(pairs, LAMBDA f :
                    /\ Pair(f).found
                    /\ Pair(f).tail # <<>>
                    /\ unquote_plus(Pair(f).head) = name)
    IN  [i \in 1..Len(kept) |-> unquote_plus(Pair(kept[i]).tail)]

\* a faulty variant of extract_channel_id_from_url that forgets the
\* /channel/ path pattern and reads the query parameter only
extract_channel_id_query_only(url) ==
    LET qs == parse_qs(urlparse_query(url), LitChannelKey)
    IN  IF Len(qs) > 0 /\ is_channel_id(qs[1]) THEN qs[1] ELSE <<>>

extract_channel_id_from_url(url) ==
    LET hits == {i \in 1..Len(url) :
                    /\ StartsAt(url, LitChannelPath, i)
                    /\ MatchIdAt(url, i + Len(LitChannelPath))}
        qs == parse_qs(urlparse_query(url), LitChannelKey)
    IN  IF hits # {}
        THEN IdAt(url, SetMin(hits) + Len(LitChannelPath))
        ELSE IF Len(qs) > 0 /\ is_channel_id(qs[1])
        THEN qs[1]
        ELSE <<>>

----------------------------------------------------------------------------
(* Channel resolver. *)

\* what a GET of a page or a feed can do
HttpError == [tag |-> "exception"]

Http(status, body) == [tag |-> "http", status |-> status, body |-> body]

\* the list candidate_urls built from the stripped input
candidate_urls(text) ==
    IF StartsWith(text, LitAt)
    THEN << LitSite \o text, LitSite \o text \o LitAbout >>
    ELSE IF Contains(text, LitYoutubeCom)
    THEN LET t == IF StartsWith(text, LitHttp) THEN text ELSE LitHttps \o text
         IN  IF EndsWith(t, LitAbout)
             THEN << t >>
             ELSE << t, rstrip_slash(t) \o LitAbout >>
    ELSE << LitSite \o LitAt \o text,
            LitSite \o LitAt \o text \o LitAbout,
            LitSite \o <<"c", "/">> \o text,
            LitSite \o <<"u", "s", "e", "r", "/">> \o text >>

\* re.search(r'"channelId":"(UC[0-9A-Za-z_-]{22})"', body): the positions
\* where the whole pattern matches
marker_hits(body) ==
    {i \in 1..Len(body) :
        /\ StartsAt(body, LitMarker, i)
        /\ MatchIdAt(body, i + Len(LitMarker))
        /\ StartsAt(body, <<"\"">>, i + Len(LitMarker) + 2 + IdBodyLen)}

\* the id a fetched page yields, or the empty text
page_channel_id(resp) ==
    IF resp.tag = "http" /\ resp.status = 200 /\ marker_hits(resp.body) # {}
    THEN IdAt(resp.body, SetMin(marker_hits(resp.body)) + Len(LitMarker))
    ELSE <<>>

\* a faulty variant of the page loop that has no return inside the loop:
\* every candidate page is requested and the first id found is kept
scrape_pages_no_stop(urls, page, i) ==
    LET found == {k \in i..Len(urls) : page_channel_id(page[k]) # <<>>}
    IN  [result |-> IF found = {} THEN <<>> ELSE page_channel_id(page[SetMin(found)]),
         fetched |-> Len(urls)]

\* the loop over candidate_urls from index i: the id found and the number
\* of pages requested; page[i] is the response to the i-th request
RECURSIVE scrape_pages(_, _, _)
scrape_pages(urls, page, i) ==
    IF i > Len(urls)
    THEN [result |-> <<>>, fetched |-> Len(urls)]
    ELSE IF page_channel_id(page[i]) # <<>>
    THEN [result |-> page_channel_id(page[i]), fetched |-> i]
    ELSE scrape_pages(urls, page, i + 1)

\* a JSON value that the code expects to be text
JNone == [tag |-> "none"]

JOther == [tag |-> "other"]

JText(s) == [tag |-> "text", s |-> s]

\* the last-resort stage: the id accepted from the search response. A
\* request error, a body that is not JSON and a value with no .strip() all
\* end in the except clause.
search_channel_id(resp) ==
    IF resp.tag # "json" \/ Len(resp.items) = 0
    THEN <<>>
    ELSE LET cid == resp.items[1].channelId
         IN  IF cid.tag = "text" /\ cid.s # <<>> /\ is_channel_id(cid.s)
             THEN cid.s
             ELSE <<>>

PageCall(u) == [kind |-> "page", arg |-> u]

SearchCall(q) == [kind |-> "search", arg |-> q]

\* resolve_channel_id(input_text, yt_api_key) under network behaviour net:
\* the value returned and the requests made, in order
resolve_channel_id(input_text, yt_api_key, net) ==
    LET text == strip(input_text)
        from_url == IF Contains(text, LitYoutubeCom) \/ Contains(text, LitYoutuBe)
                    THEN extract_channel_id_from_url(text)
                    ELSE <<>>
        urls == candidate_urls(text)
        scraped == scrape_pages(urls, net.page, 1)
        page_calls == [i \in 1..scraped.fetched |-> PageCall(urls[i])]
    IN  IF is_channel_id(text)
        THEN [result |-> text, calls |-> <<>>]
        ELSE IF from_url # <<>>
        THEN [result |-> from_url, calls |-> <<>>]
        ELSE IF scraped.result # <<>>
        THEN [result |-> scraped.result, calls |-> page_calls]
        ELSE IF yt_api_key # ""
        THEN [result |-> search_channel_id(net.search),
              calls |-> page_calls \o <<SearchCall(input_text)>>]
        ELSE [result |-> <<>>, calls |-> page_calls]

----------------------------------------------------------------------------
(* Metadata fetcher. *)

\* what a GET of a JSON API can do: fail (request error, a body that is not
\* a JSON object) or give an object with an items list
ApiError == [tag |-> "exception"]

ApiJson(items) == [tag |-> "json", items |-> items]

\* the title the channels endpoint gives: found is FALSE when the try block
\* was left through its except clause or items was empty
api_title(resp) ==
    IF resp.tag # "json" \/ Len(resp.items) = 0 \/ resp.items[1].tag # "item"
    THEN [found |-> FALSE, title |-> <<>>]
    ELSE LET t == resp.items[1].title
         IN  [found |-> TRUE, title |-> IF t.tag = "text" THEN t.s ELSE <<>>]

\* the title the upload feed gives, or the empty text
feed_title(resp) ==
    IF resp.tag # "http" \/ resp.status # 200 \/ resp.body.tag # "feed"
    THEN <<>>
    ELSE IF resp.body.author.tag = "text" /\ resp.body.author.s # <<>>
    THEN resp.body.author.s
    ELSE IF resp.body.title.tag = "text" /\ resp.body.title.s # <<>>
    THEN Remove(resp.body.title.s, LitTopic)
    ELSE <<>>

\* get_channel_title(channel_id, yt_api_key): the value returned and the
\* requests made, in order
get_channel_title(channel_id, yt_api_key, apiResp, feedResp) ==
    LET api == api_title(apiResp)
        t == feed_title(feedResp)
        fallback == IF t # <<>> THEN t ELSE LitChannelSpace \o channel_id
    IN  IF yt_api_key # "" /\ api.found
        THEN [result |-> api.title, calls |-> <<"channels_api">>]
        ELSE [result |-> fallback,
              calls |-> (IF yt_api_key # "" THEN <<"channels_api">> ELSE <<>>)
                        \o <<"feed">>]

----------------------------------------------------------------------------
(* Video lister. *)

WatchUrl(vid) == "https://www.youtube.com/watch?v=" \o vid

\* the loop of fetch_videos_via_api from item i: items without a videoId
\* are skipped, and an item that is no object ends the loop through the
\* except clause with the records collected so far
RECURSIVE api_records(_, _)
api_records(items, i) ==
    IF i > Len(items) \/ items[i].tag # "item"
    THEN <<>>
    ELSE IF items[i].videoId = ""
    THEN api_records(items, i + 1)
    ELSE << [video_id |-> items[i].videoId,
             title |-> items[i].title,
             published_at |-> items[i].publishedAt,
             description |-> items[i].description,
             url |-> WatchUrl(items[i].videoId)] >>
         \o api_records(items, i + 1)

fetch_videos_via_api(channel_id, yt_api_key, max_results, resp) ==
    IF resp.tag # "json" THEN <<>> ELSE api_records(resp.items, 1)

\* the loop of fetch_videos_via_rss over entries[:max_results]
RECURSIVE rss_records(_, _, _)
rss_records(entries, max_results, i) ==
    IF i > Len(entries) \/ i > max_results
    THEN <<>>
    ELSE IF entries[i].videoId = ""
    THEN rss_records(entries, max_results, i + 1)
    ELSE << [video_id |-> entries[i].videoId,
             title |-> entries[i].title,
             published_at |-> entries[i].published,
             description |-> entries[i].description,
             url |-> IF entries[i].hasLink
                     THEN entries[i].href
                     ELSE WatchUrl(entries[i].videoId)] >>
         \o rss_records(entries, max_results, i + 1)

fetch_videos_via_rss(channel_id, max_results, resp) ==
    IF resp.tag # "http" \/ resp.status # 200 \/ resp.body.tag # "feed"
    THEN <<>>
    ELSE rss_records(resp.body.entries, max_results, 1)

\* a faulty variant of fetch_latest_videos that does not return the API's
\* records at once and appends the feed's
fetch_latest_videos_both(channel_id, yt_api_key, max_results, apiResp, feedResp) ==
    [result |-> (IF yt_api_key # ""
                 THEN fetch_videos_via_api(channel_id, yt_api_key, max_results, apiResp)
                 ELSE <<>>)
                \o fetch_videos_via_rss(channel_id, max_results, feedResp),
     calls |-> (IF yt_api_key # "" THEN <<"search_api">> ELSE <<>>) \o <<"feed">>]

\* fetch_latest_videos(channel_id, yt_api_key, max_results): the records
\* returned and the sources requested, in order
fetch_latest_videos(channel_id, yt_api_key, max_results, apiResp, feedResp) ==
    LET vids == fetch_videos_via_api(channel_id, yt_api_key, max_results, apiResp)
    IN  IF yt_api_key # "" /\ Len(vids) > 0
        THEN [result |-> vids, calls |-> <<"search_api">>]
        ELSE [result |-> fetch_videos_via_rss(channel_id, max_results, feedResp),
              calls |-> (IF yt_api_key # "" THEN <<"search_api">> ELSE <<>>)
                        \o <<"feed">>]

----------------------------------------------------------------------------
(* Persistence store. utc_now_iso() returns the clock and every call finds *)
(* it advanced; an operator is given the value its first call returns.     *)

\* last_checked is NULL, or holds one timestamp
Null == <<>>

Stamp(t) == <<t>>

HasChannel(chs, channel_id) == \E i \in 1..Len(chs) : chs[i].channel_id = channel_id

HasVideo(vs, video_id) == \E i \in 1..Len(vs) : vs[i].video_id = video_id

\* a faulty variant of add_channel that writes INSERT OR REPLACE
add_channel_replace(chs, channel_id, title, url, t) ==
    [ok |-> TRUE,
     channels |-> SelectSeq(chs, LAMBDA r : r.channel_id # channel_id)
                    \o << [channel_id |-> channel_id, title |-> title, url |-> url,
                           added_at |-> t, last_checked |-> Null] >>]

\* add_channel: the INSERT fails on a duplicate primary key and the
\* IntegrityError is turned into False
add_channel(chs, channel_id, title, url, t) ==
    IF HasChannel(chs, channel_id)
    THEN [ok |-> FALSE, channels |-> chs]
    ELSE [ok |-> TRUE,
          channels |-> Append(chs, [channel_id |-> channel_id,
                                    title |-> title,
                                    url |-> url,
                                    added_at |-> t,
                                    last_checked |-> Null])]

\* a faulty variant of remove_channel without the DELETE FROM videos
remove_channel_row_only(chs, vs, channel_id) ==
    [videos |-> vs,
     channels |-> SelectSeq(chs, LAMBDA r : r.channel_id # channel_id)]

\* a faulty variant of remove_channel whose first DELETE carries the
\* AND seen = 0 of mark_videos_seen
remove_channel_seen_kept(chs, vs, channel_id) ==
    [videos |-> SelectSeq(vs, LAMBDA r : r.channel_id # channel_id \/ r.seen = 1),
     channels |-> SelectSeq(chs, LAMBDA r : r.channel_id # channel_id)]

\* remove_channel: both DELETE statements
remove_channel(chs, vs, channel_id) ==
    [videos |-> SelectSeq(vs, LAMBDA r : r.channel_id # channel_id),
     channels |-> SelectSeq(chs, LAMBDA r : r.channel_id # channel_id)]

RemoveAt(s, i) == SubSeq(s, 1, i - 1) \o SubSeq(s, i + 1, Len(s))

\* ORDER BY added_at DESC
RECURSIVE order_by_added_at_desc(_)
order_by_added_at_desc(rows) ==
    IF rows = <<>> THEN <<>>
    ELSE LET top == SetMin({i \in 1..Len(rows) :
                        \A j \in 1..Len(rows) : rows[j].added_at <= rows[i].added_at})
         IN  <<rows[top]>> \o order_by_added_at_desc(RemoveAt(rows, top))

list_channels(chs) ==
    LET rows == order_by_added_at_desc(chs)
    IN  [i \in 1..Len(rows) |->
            [channel_id |-> rows[i].channel_id,
             title |-> rows[i].title,
             url |-> IF rows[i].url # <<>> THEN rows[i].url
                     ELSE LitChannelUrl \o rows[i].channel_id,
             added_at |-> rows[i].added_at,
             last_checked |-> rows[i].last_checked]]

\* the row insert_videos writes for record v at time t
video_row(channel_id, v, t) ==
    [video_id |-> v.video_id,
     channel_id |-> channel_id,
     title |-> v.title,
     published_at |-> v.published_at,
     description |-> v.description,
     url |-> IF v.url # "" THEN v.url ELSE WatchUrl(v.video_id),
     added_at |-> t,
     seen |-> 0]

\* a faulty variant of the loop body that writes INSERT OR REPLACE: a row
\* with the same video_id is overwritten and counted
insert_one_replace(acc, channel_id, v, t) ==
    [videos |-> SelectSeq(acc.videos, LAMBDA r : r.video_id # v.video_id)
                    \o <<video_row(channel_id, v, t)>>,
     inserted |-> acc.inserted + 1]

\* a faulty variant of the loop body that counts outside the try block:
\* a record that is passed over is counted too
insert_one_count_all(acc, channel_id, v, t) ==
    IF HasVideo(acc.videos, v.video_id)
    THEN [videos |-> acc.videos, inserted |-> acc.inserted + 1]
    ELSE [videos |-> Append(acc.videos, video_row(channel_id, v, t)),
          inserted |-> acc.inserted + 1]

\* one pass of the loop of insert_videos: the INSERT of a video_id that is
\* already a primary key raises IntegrityError, which is passed over
insert_one(acc, channel_id, v, t) ==
    IF HasVideo(acc.videos, v.video_id)
    THEN acc
    ELSE [videos |-> Append(acc.videos, video_row(channel_id, v, t)),
          inserted |-> acc.inserted + 1]

RECURSIVE insert_loop(_, _, _, _, _)
insert_loop(acc, channel_id, batch, i, t) ==
    IF i > Len(batch) THEN acc
    ELSE insert_loop(insert_one(acc, channel_id, batch[i], t + i - 1),
                     channel_id, batch, i + 1, t)

\* insert_videos(conn, channel_id, videos): the table afterwards and the
\* count returned; the clock is read once per record
insert_videos(vs, channel_id, batch, t) ==
    insert_loop([videos |-> vs, inserted |-> 0], channel_id, batch, 1, t)

mark_channel_checked(chs, channel_id, t) ==
    [i \in 1..Len(chs) |->
        IF chs[i].channel_id = channel_id
        THEN [chs[i] EXCEPT !.last_checked = Stamp(t)]
        ELSE chs[i]]

\* a faulty variant of mark_videos_seen whose UPDATE has no WHERE channel_id
mark_videos_seen_all(vs, channel_id) ==
    [i \in 1..Len(vs) |-> [vs[i] EXCEPT !.seen = 1]]

\* mark_videos_seen(conn, channel_id): None and "" are both the empty text
mark_videos_seen(vs, channel_id) ==
    [i \in 1..Len(vs) |->
        IF vs[i].seen = 0 /\ (channel_id = <<>> \/ vs[i].channel_id = channel_id)
        THEN [vs[i] EXCEPT !.seen = 1]
        ELSE vs[i]]

\* the publish timestamps the model's feeds carry, in SQLite's text order
PubTexts == <<"", "2024-01-01T00:00:00+00:00", "2024-01-02T00:00:00+00:00",
              "2024-01-03T00:00:00+00:00", "2024-01-04T00:00:00+00:00">>

text_rank(p) == CHOOSE i \in 1..Len(PubTexts) : PubTexts[i] = p

\* ORDER BY published_at DESC (rows with equal timestamps in table order)
RECURSIVE order_by_published_at_desc(_)
order_by_published_at_desc(rows) ==
    IF rows = <<>> THEN <<>>
    ELSE LET top == SetMin({i \in 1..Len(rows) :
                        \A j \in 1..Len(rows) :
                            text_rank(rows[j].published_at) <= text_rank(rows[i].published_at)})
         IN  <<rows[top]>> \o order_by_published_at_desc(RemoveAt(rows, top))

\* FROM videos v JOIN channels c ON v.channel_id = c.channel_id
channel_of(chs, channel_id) == CHOOSE i \in 1..Len(chs) : chs[i].channel_id = channel_id

Limit(rows, limit) == SubSeq(rows, 1, IF Len(rows) < limit THEN Len(rows) ELSE limit)

get_unseen_videos(chs, vs, channel_id, limit) ==
    LET sel == SelectSeq(vs, LAMBDA r :
                    /\ HasChannel(chs, r.channel_id)
                    /\ r.seen = 0
                    /\ (channel_id = <<>> \/ r.channel_id = channel_id))
        rows == Limit(order_by_published_at_desc(sel), limit)
    IN  [i \in 1..Len(rows) |->
            [video_id |-> rows[i].video_id,
             channel_id |-> rows[i].channel_id,
             title |-> rows[i].title,
             published_at |-> rows[i].published_at,
             description |-> rows[i].description,
             url |-> rows[i].url,
             channel_title |->
                IF chs[channel_of(chs, rows[i].channel_id)].title # <<>>
                THEN chs[channel_of(chs, rows[i].channel_id)].title
                ELSE rows[i].channel_id]]

get_recent_videos(chs, vs, channel_id, limit) ==
    LET sel == SelectSeq(vs, LAMBDA r :
                    /\ HasChannel(chs, r.channel_id)
                    /\ (channel_id = <<>> \/ r.channel_id = channel_id))
        rows == Limit(order_by_published_at_desc(sel), limit)
    IN  [i \in 1..Len(rows) |->
            [video_id |-> rows[i].video_id,
             channel_id |-> rows[i].channel_id,
             title |-> rows[i].title,
             published_at |-> rows[i].published_at,
             description |-> rows[i].description,
             url |-> rows[i].url,
             seen |-> rows[i].seen = 1,
             channel_title |->
                IF chs[channel_of(chs, rows[i].channel_id)].title # <<>>
                THEN chs[channel_of(chs, rows[i].channel_id)].title
                ELSE rows[i].channel_id]]

----------------------------------------------------------------------------
(* Ingestion orchestrator. *)

UiMaxResults == 30

\* the body of ui_add_channel once the button is pressed on a non-blank
\* input: the store and the clock afterwards, and what was reported
ui_add_channel(chs, vs, t, inp, yt_api_key, net) ==
    LET r == resolve_channel_id(strip(inp), yt_api_key, net)
        cid == r.result
        title == get_channel_title(cid, yt_api_key, net.chanApi, net.titleFeed)
        added == add_channel(chs, cid, title.result, LitChannelUrl \o cid, t)
        vids == fetch_latest_videos(cid, yt_api_key, UiMaxResults,
                                    net.videoApi, net.videoFeed)
        ins == insert_videos(vs, cid, vids.result, t + 1)
        t_checked == t + 1 + Len(vids.result)
    IN  IF cid = <<>>
        THEN [outcome |-> "unresolved", cid |-> cid, n |-> 0, listed |-> <<>>,
              channels |-> chs, videos |-> vs, now |-> t]
        ELSE IF ~added.ok
        THEN [outcome |-> "already", cid |-> cid, n |-> 0, listed |-> <<>>,
              channels |-> chs, videos |-> vs, now |-> t + 1]
        ELSE [outcome |-> "added", cid |-> cid, n |-> ins.inserted,
              listed |-> vids.calls,
              channels |-> mark_channel_checked(added.channels, cid, t_checked),
              videos |-> ins.videos, now |-> t_checked + 1]

\* one pass of the loop of ui_check_updates, for the listed channel ch
check_one(acc, ch, yt_api_key, net) ==
    LET vids == fetch_latest_videos(ch.channel_id, yt_api_key, UiMaxResults,
                                    net.videoApi, net.videoFeed)
        ins == insert_videos(acc.videos, ch.channel_id, vids.result, acc.now)
        t_checked == acc.now + Len(vids.result)
    IN  [total |-> acc.total + ins.inserted,
         order |-> Append(acc.order, ch.channel_id),
         fetched |-> Append(acc.fetched,
                            [k \in 1..Len(vids.result) |-> vids.result[k].video_id]),
         counts |-> Append(acc.counts, ins.inserted),
         channels |-> mark_channel_checked(acc.channels, ch.channel_id, t_checked),
         videos |-> ins.videos,
         now |-> t_checked + 1]

\* a faulty variant of the loop in which a channel whose listing gave nothing
\* ends the pass, as an error that is not caught would
RECURSIVE check_loop_abort(_, _, _, _, _)
check_loop_abort(acc, chs_listed, i, yt_api_key, fetchNet) ==
    IF i > Len(chs_listed) THEN acc
    ELSE LET nxt == check_one(acc, chs_listed[i], yt_api_key,
                              fetchNet[chs_listed[i].channel_id])
         IN  IF nxt.fetched[Len(nxt.fetched)] = <<>>
             THEN acc
             ELSE check_loop_abort(nxt, chs_listed, i + 1, yt_api_key, fetchNet)

RECURSIVE check_loop(_, _, _, _, _)
check_loop(acc, chs_listed, i, yt_api_key, fetchNet) ==
    IF i > Len(chs_listed) THEN acc
    ELSE check_loop(check_one(acc, chs_listed[i], yt_api_key,
                              fetchNet[chs_listed[i].channel_id]),
                    chs_listed, i + 1, yt_api_key, fetchNet)

\* the body of the "Check all channels now" button; fetchNet[c] is what the
\* network does when channel c is fetched
ui_check_updates(chs, vs, t, yt_api_key, fetchNet) ==
    check_loop([total |-> 0, order |-> <<>>, fetched |-> <<>>, counts |-> <<>>,
                channels |-> chs, videos |-> vs, now |-> t],
               list_channels(chs), 1, yt_api_key, fetchNet)

----------------------------------------------------------------------------
(* The bounded world: channel ids, feeds, API payloads and pages.          *)

MaxTime == 8

ChanA == <<"U", "C", "1", "2", "3", "4", "5", "6", "7", "8", "9", "0", "1", "2", "3", "4", "5", "6", "7", "8", "9", "0", "1", "2">>

ChanB == <<"U", "C">> \o [i \in 1..IdBodyLen |-> "b"]

ChannelIds == {ChanA, ChanB}

Keys == {"", "K"}

LitHandle == <<"@", "h">>

Malformed == [tag |-> "malformed"]

Feed(author, title, entries) ==
    [tag |-> "feed", author |-> author, title |-> title, entries |-> entries]

Entry(vid, title, k) ==
    [videoId |-> vid, title |-> title, published |-> PubTexts[k + 1],
     description |-> "", hasLink |-> TRUE, href |-> WatchUrl(vid)]

Item(vid, title, k) ==
    [tag |-> "item", videoId |-> vid, title |-> title,
     publishedAt |-> PubTexts[k + 1], description |-> "d"]

UploadFeed(entries) == Http(200, Feed(JText(<<"A">>), JText(<<"F">>), entries))

E1 == Entry("v1", "t1", 1)

E2 == Entry("v2", "t2", 2)

E3 == Entry("v3", "t3", 3)

PageBody(mid) == <<"<", "h", "t", "m", "l", ">", "{">> \o mid \o <<"}">>

PageWith(cid) == Http(200, PageBody(LitMarker \o cid \o <<"\"">>))

PageMiss == Http(200, PageBody(<<>>))

TitleItem(t) == [tag |-> "item", title |-> t]

NoEnv == [tag |-> "none"]

EmptyStore ==
    /\ channels = <<>>
    /\ videos = <<>>
    /\ now = 1
    /\ last = [op |-> "init"]
    /\ pc = 0

----------------------------------------------------------------------------
(* The application: one user action at a time, each run to completion.     *)

\* what the network does when one channel's uploads are listed, by the key
\* the session holds
FetchNets(key) ==
    IF key = ""
    THEN { [videoApi |-> ApiError, videoFeed |-> HttpError],
           [videoApi |-> ApiError, videoFeed |-> UploadFeed(<<E1>>)],
           [videoApi |-> ApiError, videoFeed |-> UploadFeed(<<E2, E1>>)] }
    ELSE { [videoApi |-> ApiJson(<<Item("v3", "t3", 3)>>),
            videoFeed |-> UploadFeed(<<E1>>)],
           [videoApi |-> ApiError, videoFeed |-> UploadFeed(<<E1>>)] }

\* both sources of a channel's uploads fail
FetchFails(fn) == fn.videoApi.tag = "exception" /\ fn.videoFeed.tag = "exception"

AddNet(pg, fn) ==
    [page |-> pg, search |-> ApiError, chanApi |-> ApiError, titleFeed |-> HttpError,
     videoApi |-> fn.videoApi, videoFeed |-> fn.videoFeed]

\* the inputs of one add-channel: the text typed, the key of the session
\* and what the network does
AddCases ==
    { [inp |-> inp, key |-> key, net |-> AddNet(<<PageMiss, PageMiss, PageMiss, PageMiss>>, fn)] :
        inp \in {ChanA, <<" ">> \o ChanB \o <<" ">>}, key \in {""}, fn \in FetchNets("") }
    \cup
    { [inp |-> inp, key |-> key, net |-> AddNet(<<PageMiss, PageMiss, PageMiss, PageMiss>>, fn)] :
        inp \in {ChanA, <<" ">> \o ChanB \o <<" ">>}, key \in {"K"}, fn \in FetchNets("K") }
    \cup
    { [inp |-> LitHandle, key |-> "", net |-> AddNet(pg, fn)] :
        pg \in { <<PageMiss, PageMiss, PageMiss, PageMiss>>,
                 <<HttpError, PageWith(ChanB), PageMiss, PageMiss>> },
        fn \in {[videoApi |-> ApiError, videoFeed |-> UploadFeed(<<E1>>)]} }

Init == EmptyStore /\ env = NoEnv

\* the "Add Channel" button
UiAddChannel ==
    \E c \in AddCases :
        \E r \in {ui_add_channel(channels, videos, now, c.inp, c.key, c.net)} :
            /\ strip(c.inp) # <<>>
            /\ r.now <= MaxTime
            /\ channels' = r.channels
            /\ videos' = r.videos
            /\ now' = r.now
            /\ last' = [op |-> "add", outcome |-> r.outcome, cid |-> r.cid,
                        n |-> r.n, listed |-> r.listed, failed |-> FetchFails(c.net)]
            /\ UNCHANGED <<env, pc>>

\* the "Check all channels now" button
UiCheckUpdates ==
    \E key \in Keys :
        \E fetchNet \in [{channels[i].channel_id : i \in 1..Len(channels)} -> FetchNets(key)] :
            \E r \in {ui_check_updates(channels, videos, now, key, fetchNet)} :
                /\ r.now <= MaxTime
                /\ channels' = r.channels
                /\ videos' = r.videos
                /\ now' = r.now
                /\ last' = [op |-> "check", total |-> r.total, order |-> r.order,
                            fetched |-> r.fetched, counts |-> r.counts,
                            failed |-> [i \in 1..Len(r.order) |->
                                            FetchFails(fetchNet[r.order[i]])]]
                /\ UNCHANGED <<env, pc>>

\* the "Mark seen" button of one channel, and "Mark ALL unseen as seen"
\* (the empty channel id)
UiMarkSeen ==
    \E c \in ChannelIds \cup {<<>>} :
        /\ videos' = mark_videos_seen(videos, c)
        /\ last' = [op |-> "seen", cid |-> c]
        /\ UNCHANGED <<channels, now, env, pc>>

\* remove_channel, as the "Remove" button calls it; a page drawn before an
\* earlier removal still shows the button of a channel that is gone
UiRemoveChannel ==
    \E c \in ChannelIds :
        \E r \in {remove_channel(channels, videos, c)} :
            /\ channels' = r.channels
            /\ videos' = r.videos
            /\ last' = [op |-> "remove", cid |-> c,
                        rows |-> Len(videos) - Len(r.videos)]
            /\ UNCHANGED <<now, env, pc>>

Next ==
    \/ UiAddChannel
    \/ UiCheckUpdates
    \/ UiMarkSeen
    \/ UiRemoveChannel

Spec == Init /\ [][Next]_vars

IdsOf(rows) == {rows[i].video_id : i \in 1..Len(rows)}

\* the default limits of the two queries
UnseenLimit == 100

RecentLimit == 50

\* C2: an add-channel whose input resolves to a channel_id that is already
\* persisted reports "already tracked" and changes nothing in the store: the
\* channel rows are as they were (no second row; title, added_at and
\* last_checked kept) and no video is listed or inserted.
C2_ReAddChangesNothing ==
    [][ (last'.op = "add" /\ HasChannel(channels, last'.cid)) =>
            /\ last'.outcome = "already"
            /\ channels' = channels
            /\ videos' = videos
            /\ last'.listed = <<>>
            /\ last'.n = 0
      ]_vars

\* a tracked channel that holds videos and was checked is added again
C2_Witness ==
    /\ last.op = "add"
    /\ last.outcome = "already"
    /\ \E i \in 1..Len(channels) :
            channels[i].channel_id = last.cid /\ channels[i].last_checked # Null
    /\ \E i \in 1..Len(videos) : videos[i].channel_id = last.cid

\* C3: after remove_channel(c) no video row and no channel row of c is left
\* and the unseen and recent queries for c are empty; the rows of other
\* channels are as they were, in their order; removing a channel that is
\* absent changes nothing.
C3_RemoveChannel ==
    [][ last'.op = "remove" =>
          LET c == last'.cid
              Other(r) == r.channel_id # c
          IN  /\ ~HasChannel(channels', c)
              /\ \A i \in 1..Len(videos') : videos'[i].channel_id # c
              /\ get_unseen_videos(channels', videos', c, UnseenLimit) = <<>>
              /\ get_recent_videos(channels', videos', c, RecentLimit) = <<>>
              /\ SelectSeq(channels', Other) = SelectSeq(channels, Other)
              /\ SelectSeq(videos', Other) = SelectSeq(videos, Other)
              /\ Len(channels') >= Len(channels) - 1
              /\ (~HasChannel(channels, c) /\ \A i \in 1..Len(videos) : Other(videos[i]))
                    => (channels' = channels /\ videos' = videos)
      ]_vars

\* a channel was removed with its video rows, and another channel and its
\* videos are still there
C3_Witness ==
    /\ last.op = "remove"
    /\ last.rows >= 1
    /\ channels # <<>>
    /\ videos # <<>>

\* C10: a check-updates pass goes through every channel persisted at its
\* start, in the listing's order, whichever fetches fail: a channel whose
\* fetch fails contributes 0, every channel's listed videos are in the table
\* afterwards, every channel is marked checked during the pass, and the
\* total reported is the number of video rows the pass added.
C10_CheckEveryChannel ==
    [][ last'.op = "check" =>
          LET n == Len(channels)
          IN  /\ Len(last'.order) = n
              /\ \A i \in 1..n : last'.order[i] = list_channels(channels)[i].channel_id
              /\ {last'.order[i] : i \in 1..n} = {channels[i].channel_id : i \in 1..n}
              /\ \A i \in 1..n :
                    /\ last'.failed[i] => (last'.counts[i] = 0 /\ last'.fetched[i] = <<>>)
                    /\ \A k \in 1..Len(last'.fetched[i]) :
                            HasVideo(videos', last'.fetched[i][k])
                    /\ last'.counts[i] <= Len(last'.fetched[i])
              /\ Len(channels') = n
              /\ \A i \in 1..n :
                    /\ channels'[i].channel_id = channels[i].channel_id
                    /\ channels'[i].last_checked # Null
                    /\ channels'[i].last_checked[1] >= now
                    /\ channels'[i].last_checked[1] < now'
              /\ \A i \in 1..Len(videos) : videos'[i] = videos[i]
              /\ last'.total = Len(videos') - Len(videos)
      ]_vars

\* the first channel of the pass failed and the second still gave a new video
C10_Witness ==
    /\ last.op = "check"
    /\ Len(last.order) = 2
    /\ last.failed[1]
    /\ last.counts[2] >= 1
    /\ last.total = last.counts[2]

\* the last_checked of channel c in the table chs
LastChecked(chs, c) == chs[channel_of(chs, c)].last_checked

\* C11: last_checked is null from a channel's creation until its first
\* check and afterwards holds the time of the most recent successful
\* ingestion pass: an add-channel or check-updates pass in which every fetch
\* for the channel failed leaves last_checked as it was (null, for a channel
\* just created), and no other action changes it.
C11_FailedPassKeepsLastChecked ==
    [][ /\ (last'.op = "add" /\ last'.outcome = "added" /\ last'.failed) =>
                LastChecked(channels', last'.cid) = Null
        /\ last'.op = "check" =>
                \A i \in 1..Len(last'.order) :
                    last'.failed[i] =>
                        LastChecked(channels', last'.order[i])
                            = LastChecked(channels, last'.order[i])
        /\ last'.op \in {"seen", "remove"} =>
                \A i \in 1..Len(channels') :
                    channels'[i].last_checked
                        = LastChecked(channels, channels'[i].channel_id)
      ]_vars

\* the number of unseen rows of channel c
UnseenCount(vs, c) ==
    Cardinality({i \in 1..Len(vs) : vs[i].channel_id = c /\ vs[i].seen = 0})

\* C13: after mark_videos_seen scoped to a channel c every video of c is
\* seen; the rows of every other channel are as they were, so the unseen
\* count of any other channel is the same; no video or channel row is added
\* or removed, and nothing but the seen flag changes.
C13_MarkSeenScoped ==
    [][ (last'.op = "seen" /\ last'.cid # <<>>) =>
          LET c == last'.cid
          IN  /\ channels' = channels
              /\ Len(videos') = Len(videos)
              /\ \A i \in 1..Len(videos) :
                    /\ videos'[i] = [videos[i] EXCEPT !.seen = videos'[i].seen]
                    /\ videos[i].channel_id = c => videos'[i].seen = 1
                    /\ videos[i].channel_id # c => videos'[i].seen = videos[i].seen
              /\ \A d \in ChannelIds \ {c} :
                    /\ UnseenCount(videos', d) = UnseenCount(videos, d)
                    /\ Len(get_unseen_videos(channels', videos', d, UnseenLimit))
                         = Len(get_unseen_videos(channels, videos, d, UnseenLimit))
      ]_vars

\* one channel's videos were marked seen while another channel has an
\* unseen video
C13_Witness ==
    /\ last.op = "seen"
    /\ last.cid # <<>>
    /\ \E i \in 1..Len(videos) : videos[i].channel_id = last.cid /\ videos[i].seen = 1
    /\ \E i \in 1..Len(videos) : videos[i].channel_id # last.cid /\ videos[i].seen = 0

\* C14: whatever add-channel, check-updates, mark-seen and remove-channel
\* actions have run, each to completion, every video row's channel_id is
\* that of a channel row in the store, so the joined recent query returns
\* every stored video and the joined unseen query every unseen one.
C14_NoOrphanVideos ==
    /\ \A i \in 1..Len(videos) : HasChannel(channels, videos[i].channel_id)
    /\ IdsOf(get_recent_videos(channels, videos, <<>>, RecentLimit)) = IdsOf(videos)
    /\ IdsOf(get_unseen_videos(channels, videos, <<>>, UnseenLimit))
         = IdsOf(SelectSeq(videos, LAMBDA r : r.seen = 0))

\* a channel was removed with its videos, and the channel that is left
\* holds a video that was marked seen
C14_Witness ==
    /\ last.op = "remove"
    /\ last.rows >= 1
    /\ Len(channels) = 1
    /\ \E i \in 1..Len(videos) : videos[i].seen = 1

----------------------------------------------------------------------------
(* The resolver alone: every input text under every network behaviour.     *)

MaxPages == 4

LitWatch == LitSite \o <<"w", "a", "t", "c", "h", "?">>

ShortId == <<"U", "C">> \o [i \in 1..(IdBodyLen - 1) |-> "s"]

LongId == <<"U", "C">> \o [i \in 1..(IdBodyLen + 3) |-> "L"]

ResolveInputs ==
    { ChanA,
      <<" ">> \o ChanA \o <<" ", " ">>,
      ShortId,
      LitHandle,
      <<" ">> \o LitHandle \o <<"\n">>,
      <<"n", "a", "m", "e">>,
      LitChannelUrl \o ChanA,
      LitYoutubeCom \o LitChannelPath \o ChanA \o <<"/", "v", "i", "d", "e", "o", "s">>,
      LitHttps \o LitYoutuBe \o LitChannelPath \o ChanA,
      LitHttps \o <<"e", "x", "a", "m", "p", "l", "e", ".", "c", "o", "m">>
          \o LitChannelPath \o ChanA,
      LitChannelUrl \o LongId \o LitChannelPath \o ChanA,
      LitChannelUrl \o ShortId,
      LitWatch \o LitChannelKey \o <<"=">> \o ChanA,
      LitWatch \o <<"x", "=", "1", "&">> \o LitChannelKey \o <<"=">> \o ChanA \o <<"+">>,
      LitWatch \o LitChannelKey \o <<"=">> \o ShortId,
      LitSite \o <<"x", "#", "f", "?">> \o LitChannelKey \o <<"=">> \o ChanA,
      LitSite \o LitHandle,
      LitSite \o LitHandle \o LitAbout,
      LitYoutubeCom \o <<"/", "c", "/", "n", "a", "m", "e", "/">> }

\* a page can fail, answer with an error status, or answer 200 with a body
\* that holds a well-formed marker, a marker with a short id, or none
PageResponses ==
    { HttpError,
      Http(404, PageBody(LitMarker \o ChanB \o <<"\"">>)),
      Http(200, PageBody(LitMarker \o ShortId \o <<"\"">>)),
      PageWith(ChanB) }

SearchItem(v) == [channelId |-> v]

\* the search endpoint can fail, find nothing, or give a first item whose
\* channelId is missing, not text, or text of any shape
SearchResponses ==
    { ApiError,
      ApiJson(<<>>),
      ApiJson(<<SearchItem(JNone)>>),
      ApiJson(<<SearchItem(JOther)>>),
      ApiJson(<<SearchItem(JText(ChanB))>>),
      ApiJson(<<SearchItem(JText(<<" ">> \o ChanB \o <<"\n">>))>>),
      ApiJson(<<SearchItem(JText(ShortId))>>) }

AllMiss == [i \in 1..MaxPages |-> Http(200, PageBody(<<>>))]

ResolveEnvs ==
    { [input |-> inp, key |-> "", net |-> [page |-> pg, search |-> ApiError]] :
        inp \in ResolveInputs, pg \in [1..MaxPages -> PageResponses] }
    \cup
    { [input |-> inp, key |-> "K", net |-> [page |-> pg, search |-> sr]] :
        inp \in ResolveInputs,
        pg \in {AllMiss, [AllMiss EXCEPT ![2] = PageWith(ChanB)]},
        sr \in SearchResponses }

InitResolve == EmptyStore /\ env \in ResolveEnvs

Resolve ==
    /\ last.op = "init"
    /\ \E r \in {resolve_channel_id(env.input, env.key, env.net)} :
            last' = [op |-> "resolve", result |-> r.result, calls |-> r.calls]
    /\ UNCHANGED <<channels, videos, now, env, pc>>

SpecResolve == InitResolve /\ [][Resolve]_vars

----------------------------------------------------------------------------
(* Properties of the resolver, checked under SpecResolve.                  *)

\* the shape of a canonical channel id, stated apart from the validator
CanonicalId(s) ==
    /\ Len(s) = 2 + IdBodyLen
    /\ s[1] = "U"
    /\ s[2] = "C"
    /\ \A i \in 3..Len(s) : s[i] \in IdChars

\* the canonical ids that are a whole path segment after /channel/ in s
ChannelSegments(s) ==
    { SubSeq(s, i + Len(LitChannelPath), i + Len(LitChannelPath) + 1 + IdBodyLen) :
        i \in { k \in 1..Len(s) :
                  /\ StartsAt(s, LitChannelPath, k)
                  /\ k + Len(LitChannelPath) + 1 + IdBodyLen <= Len(s)
                  /\ CanonicalId(SubSeq(s, k + Len(LitChannelPath),
                                        k + Len(LitChannelPath) + 1 + IdBodyLen))
                  /\ LET after == k + Len(LitChannelPath) + 2 + IdBodyLen
                     IN  after > Len(s) \/ s[after] \in {"/", "?", "#"} } }

\* the text that follows the first /channel/ of s, cut to the length of an id
AfterFirstChannelPath(s) ==
    LET at == {k \in 1..Len(s) : StartsAt(s, LitChannelPath, k)}
    IN  IF at = {} THEN <<>>
        ELSE SubSeq(s, SetMin(at) + Len(LitChannelPath),
                    IF SetMin(at) + Len(LitChannelPath) + 1 + IdBodyLen <= Len(s)
                    THEN SetMin(at) + Len(LitChannelPath) + 1 + IdBodyLen
                    ELSE Len(s))

Resolved == last.op = "resolve"

\* C5: resolve_channel_id returns the empty result or exactly a canonical
\* channel id (UC and 22 characters of [0-9A-Za-z_-], nothing around it),
\* whatever the input and whatever the network answers.
C5_CanonicalOrUnresolved ==
    Resolved => (last.result = <<>> \/ CanonicalId(last.result))

\* C6: the stages run in a fixed order and stop at the first result. A
\* canonical input is returned unchanged with no request made; the pages
\* requested are the first candidate urls, in list order, none before the
\* last of them yielding an id, and the requests stop short of the list only
\* at a page that yields the result; the search request comes last, at most
\* once, only with a key and only after every candidate page was requested
\* without a match.
C6_StagesInOrder ==
    Resolved =>
        LET urls == candidate_urls(strip(env.input))
            n == Len(last.calls)
            np == Cardinality({i \in 1..n : last.calls[i].kind = "page"})
            searched == n > np
        IN  /\ CanonicalId(env.input) => (last.result = env.input /\ n = 0)
            /\ np <= Len(urls)
            /\ n <= np + 1
            /\ \A i \in 1..np : last.calls[i] = PageCall(urls[i])
            /\ \A i \in 1..(np - 1) : page_channel_id(env.net.page[i]) = <<>>
            /\ (np > 0 /\ np < Len(urls)) =>
                    (page_channel_id(env.net.page[np]) # <<>>
                     /\ last.result = page_channel_id(env.net.page[np]))
            /\ (np > 0 /\ page_channel_id(env.net.page[np]) # <<>>) => ~searched
            /\ searched =>
                    /\ last.calls[n] = SearchCall(env.input)
                    /\ env.key # ""
                    /\ np = Len(urls)
                    /\ \A i \in 1..np : page_channel_id(env.net.page[i]) = <<>>

\* a key is held, the second of four candidate pages yields the id, and the
\* resolver stopped there
C6_Witness ==
    /\ Resolved
    /\ env.key = "K"
    /\ Len(candidate_urls(strip(env.input))) = 4
    /\ Len(last.calls) = 2
    /\ last.result = ChanB

\* C7 as stated: every input with a path segment /channel/<validID> gives
\* exactly <validID>, with no page and no search request.
C7_AnyChannelUrl ==
    Resolved =>
        \A v \in ChannelSegments(env.input) : last.result = v /\ last.calls = <<>>

\* C7, amended: an input that contains youtube.com or youtu.be, and whose
\* first /channel/ is followed by the canonical id <validID> as a whole path
\* segment, gives exactly <validID> with no page and no search request.
C7_PlatformChannelUrl ==
    (/\ Resolved
     /\ Contains(env.input, LitYoutubeCom) \/ Contains(env.input, LitYoutuBe)
     /\ AfterFirstChannelPath(env.input) \in ChannelSegments(env.input))
    => (last.result = AfterFirstChannelPath(env.input) /\ last.calls = <<>>)

\* a youtu.be address with a /channel/ segment was resolved
C7_Witness ==
    /\ Resolved
    /\ Contains(env.input, LitYoutuBe)
    /\ ChannelSegments(env.input) = {ChanA}
    /\ last.result = ChanA
    /\ last.calls = <<>>

----------------------------------------------------------------------------
(* The metadata fetcher alone: every channel, key, API answer and feed.    *)

\* the channels endpoint can fail, find nothing, or give a first item that
\* is no object, has a title, or has none
TitleApiResponses ==
    { ApiError,
      ApiJson(<<>>),
      ApiJson(<<JOther>>),
      ApiJson(<<TitleItem(JText(<<"T">>))>>),
      ApiJson(<<TitleItem(JNone)>>),
      ApiJson(<<TitleItem(JText(<<>>))>>) }

\* the feed can fail, answer with an error status, be no XML, or name an
\* author, a title, a topic title, or nothing
TitleFeedResponses ==
    { HttpError,
      Http(404, Feed(JText(<<"A">>), JText(<<"F">>), <<>>)),
      Http(200, Malformed),
      Http(200, Feed(JText(<<"A">>), JText(<<"F">>), <<>>)),
      Http(200, Feed(JNone, JText(<<"F">> \o LitTopic), <<>>)),
      Http(200, Feed(JText(<<>>), JText(LitTopic), <<>>)),
      Http(200, Feed(JNone, JNone, <<>>)) }

TitleEnvs ==
    { [cid |-> c, key |-> k, chanApi |-> a, titleFeed |-> f] :
        c \in ChannelIds, k \in Keys, a \in TitleApiResponses, f \in TitleFeedResponses }

InitTitle == EmptyStore /\ env \in TitleEnvs

Title ==
    /\ last.op = "init"
    /\ \E r \in {get_channel_title(env.cid, env.key, env.chanApi, env.titleFeed)} :
            last' = [op |-> "title", result |-> r.result, calls |-> r.calls]
    /\ UNCHANGED <<channels, videos, now, env, pc>>

SpecTitle == InitTitle /\ [][Title]_vars

\* the title an API answer carries, or the empty text
SnippetTitle(resp) ==
    IF resp.tag = "json" /\ Len(resp.items) > 0 /\ resp.items[1].tag = "item"
       /\ resp.items[1].title.tag = "text"
    THEN resp.items[1].title.s
    ELSE <<>>

\* C8: get_channel_title returns, and never the empty text: the API's
\* snippet title if a key is held and the title is present, otherwise what
\* the feed gives (the author name, or the feed title without " - Topic"),
\* otherwise "Channel " followed by the id.
C8_TitleNeverEmpty ==
    last.op = "title" =>
        /\ last.result # <<>>
        /\ last.result =
              IF env.key # "" /\ SnippetTitle(env.chanApi) # <<>>
              THEN SnippetTitle(env.chanApi)
              ELSE IF feed_title(env.titleFeed) # <<>>
              THEN feed_title(env.titleFeed)
              ELSE LitChannelSpace \o env.cid

----------------------------------------------------------------------------
(* The video lister alone, next to a store that holds one channel.         *)

SampleChannels ==
    << [channel_id |-> ChanA, title |-> <<"A">>, url |-> LitChannelUrl \o ChanA,
        added_at |-> 0, last_checked |-> Null] >>

SampleVideos == << video_row(ChanA, rss_records(<<E1>>, 1, 1)[1], 0) >>

\* the search endpoint can fail, find nothing, or list items: with a video
\* id, without one, or an entry that is no object
VideoApiResponses ==
    { ApiError,
      ApiJson(<<>>),
      ApiJson(<<Item("v3", "t3", 3)>>),
      ApiJson(<<Item("v3", "t3", 3), Item("v2", "t2", 2)>>),
      ApiJson(<<Item("", "t3", 3)>>),
      ApiJson(<<Item("", "t3", 3), Item("v2", "t2", 2)>>),
      ApiJson(<<Item("v3", "t3", 3), JOther, Item("v2", "t2", 2)>>),
      ApiJson(<<JOther, Item("v2", "t2", 2)>>) }

VideoFeedResponses ==
    { HttpError,
      Http(404, Feed(JText(<<"A">>), JText(<<"F">>), <<E1>>)),
      Http(200, Malformed),
      UploadFeed(<<>>),
      UploadFeed(<<E1>>),
      UploadFeed(<<E2, E1>>),
      UploadFeed(<<Entry("", "t2", 2), E1>>),
      UploadFeed(<<[E2 EXCEPT !.hasLink = FALSE], E1>>) }

FetchEnvs ==
    { [cid |-> ChanA, key |-> k, max |-> m, videoApi |-> a, videoFeed |-> f] :
        k \in Keys, m \in {1, UiMaxResults}, a \in VideoApiResponses,
        f \in VideoFeedResponses }

InitFetch ==
    /\ channels = SampleChannels
    /\ videos = SampleVideos
    /\ now = 1
    /\ last = [op |-> "init"]
    /\ pc = 0
    /\ env \in FetchEnvs

Fetch ==
    /\ last.op = "init"
    /\ \E r \in {fetch_latest_videos(env.cid, env.key, env.max, env.videoApi, env.videoFeed)} :
            last' = [op |-> "fetch", result |-> r.result, calls |-> r.calls]
    /\ UNCHANGED <<channels, videos, now, env, pc>>

SpecFetch == InitFetch /\ [][Fetch]_vars

Fetched == last.op = "fetch"

FeedRequested == \E i \in 1..Len(last.calls) : last.calls[i] = "feed"

\* C9: with a key, when the API path gives at least one record the result
\* is those records and the feed is not requested; the feed is requested
\* exactly when no key is held or the API path gave nothing (a swallowed
\* failure included), and the result is then the feed's records; the store
\* is as it was.
C9_SourceSelection ==
    Fetched =>
        LET api == fetch_videos_via_api(env.cid, env.key, env.max, env.videoApi)
        IN  /\ (env.key # "" /\ api # <<>>) =>
                    (last.result = api /\ last.calls = <<"search_api">>)
            /\ FeedRequested <=> (env.key = "" \/ api = <<>>)
            /\ FeedRequested =>
                    last.result = fetch_videos_via_rss(env.cid, env.max, env.videoFeed)
            /\ channels = SampleChannels
            /\ videos = SampleVideos

\* a key is held, the API gave records although an entry of its answer was
\* unusable, and the feed, which had entries, was left alone
C9_Witness ==
    /\ Fetched
    /\ env.key = "K"
    /\ env.videoApi.tag = "json"
    /\ Len(env.videoApi.items) = 3
    /\ Len(last.result) = 1
    /\ env.videoFeed = UploadFeed(<<E2, E1>>)
    /\ ~FeedRequested

----------------------------------------------------------------------------
(* insert_videos alone: every table, channel and batch within the bounds.  *)

MaxBatch == 3

\* a candidate record as a lister hands it over
Rec(vid, title, k, url) ==
    [video_id |-> vid, title |-> title, published_at |-> PubTexts[k + 1],
     description |-> "", url |-> url]

\* two records share the id v1 and differ in their title; one has no url
BatchRecords ==
    { Rec("v1", "t1", 1, WatchUrl("v1")),
      Rec("v1", "other", 2, WatchUrl("v1")),
      Rec("v2", "t2", 2, WatchUrl("v2")),
      Rec("v3", "", 0, "") }

Batches == UNION { [1..n -> BatchRecords] : n \in 0..MaxBatch }

\* tables the program can have built: video ids are unique
StoredTables ==
    { <<>>,
      << [video_row(ChanA, Rec("v1", "old", 1, WatchUrl("v1")), 0) EXCEPT !.seen = 1] >>,
      << video_row(ChanB, Rec("v1", "t1", 1, WatchUrl("v1")), 0),
         [video_row(ChanA, Rec("v2", "old", 4, "u2"), 0) EXCEPT !.seen = 1] >> }

InsertEnvs == { [cid |-> c, batch |-> b] : c \in ChannelIds, b \in Batches }

InitInsert ==
    /\ channels = SampleChannels
    /\ videos \in StoredTables
    /\ now = 1
    /\ last = [op |-> "init"]
    /\ pc = 0
    /\ env \in InsertEnvs

Insert ==
    /\ last.op = "init"
    /\ \E r \in {insert_videos(videos, env.cid, env.batch, now)} :
            /\ videos' = r.videos
            /\ last' = [op |-> "insert", inserted |-> r.inserted]
    /\ now' = now + Len(env.batch)
    /\ UNCHANGED <<channels, env, pc>>

SpecInsert == InitInsert /\ [][Insert]_vars

\* the first record of the batch that carries the id
FirstWith(batch, id) == batch[SetMin({i \in 1..Len(batch) : batch[i].video_id = id})]

\* C1: insert_videos adds one unseen row for each video_id of the batch that
\* the table does not hold yet, and nothing else; it returns the number of
\* rows added; every row that was there is as it was; no video_id is in two
\* rows.
C1_InsertOnlyNew ==
    [][ last'.op = "insert" =>
          LET fresh == IdsOf(env.batch) \ IdsOf(videos)
              old == Len(videos)
          IN  /\ Len(videos') = old + Cardinality(fresh)
              /\ last'.inserted = Cardinality(fresh)
              /\ \A i \in 1..old : videos'[i] = videos[i]
              /\ {videos'[i].video_id : i \in (old + 1)..Len(videos')} = fresh
              /\ \A i \in (old + 1)..Len(videos') :
                    LET v == FirstWith(env.batch, videos'[i].video_id)
                    IN  /\ videos'[i].channel_id = env.cid
                        /\ videos'[i].seen = 0
                        /\ videos'[i].title = v.title
                        /\ videos'[i].published_at = v.published_at
                        /\ videos'[i].description = v.description
                        /\ videos'[i].url \in {v.url, WatchUrl(v.video_id)}
                        /\ videos'[i].url # ""
              /\ \A i, j \in 1..Len(videos') :
                    videos'[i].video_id = videos'[j].video_id => i = j
      ]_vars

\* a batch of three records with two ids, one of them stored already under
\* another channel, went in: one row was added to the two held
C1_Witness ==
    /\ last.op = "insert"
    /\ last.inserted = 1
    /\ Len(env.batch) = 3
    /\ Cardinality(IdsOf(env.batch)) = 2
    /\ Len(videos) = 3
    /\ videos[1].channel_id = ChanB
    /\ env.cid = ChanA

\* the orders in which the records of a batch can be handed over
BatchOrders(batch) ==
    { [i \in 1..Len(batch) |-> batch[p[i]]] :
        p \in { q \in [1..Len(batch) -> 1..Len(batch)] :
                  \A i, j \in 1..Len(batch) : q[i] = q[j] => i = j } }

\* the rows of a table without their added_at
Contents(rows) ==
    { [video_id |-> rows[i].video_id, channel_id |-> rows[i].channel_id,
       title |-> rows[i].title, published_at |-> rows[i].published_at,
       description |-> rows[i].description, url |-> rows[i].url,
       seen |-> rows[i].seen] : i \in 1..Len(rows) }

\* C12: insert_videos applied to any permutation of the batch, one in which
\* a video_id occurs twice with different metadata included, returns the
\* same count and leaves the same rows in the videos table, added_at aside.
C12_BatchOrderIrrelevant ==
    [][ last'.op = "insert" =>
          \A b \in BatchOrders(env.batch) :
              LET r == insert_videos(videos, env.cid, b, now)
              IN  /\ r.inserted = last'.inserted
                  /\ Contents(r.videos) = Contents(videos')
      ]_vars

----------------------------------------------------------------------------
(* One scenario from end to end: a channel is added, checked, its videos   *)
(* are marked seen, and it is checked again after one more upload.         *)

E4 == Entry("v4", "t4", 4)

\* the orders in which a feed can list the three uploads
FirstUploads ==
    { u \in [1..3 -> {E1, E2, E3}] : \A i, j \in 1..3 : u[i] = u[j] => i = j }

InsertAt(seq, k, e) == SubSeq(seq, 1, k - 1) \o <<e>> \o SubSeq(seq, k, Len(seq))

AsItems(entries) ==
    [i \in 1..Len(entries) |->
        [tag |-> "item", videoId |-> entries[i].videoId, title |-> entries[i].title,
         publishedAt |-> entries[i].published, description |-> "d"]]

\* what the network does for a list of uploads, by the source in use
UploadsNet(source, entries) ==
    IF source = "api"
    THEN [videoApi |-> ApiJson(AsItems(entries)), videoFeed |-> HttpError]
    ELSE [videoApi |-> ApiError, videoFeed |-> UploadFeed(entries)]

E2EEnvs ==
    { [input |-> inp, key |-> src.key, source |-> src.source, uploads |-> up,
       at |-> k, scoped |-> sc] :
        inp \in {ChanA, <<" ">> \o ChanA, LitChannelUrl \o ChanA},
        src \in { [key |-> "", source |-> "feed"],
                  [key |-> "K", source |-> "feed"],
                  [key |-> "K", source |-> "api"] },
        up \in FirstUploads,
        k \in 1..4,
        sc \in BOOLEAN }

InitE2E == EmptyStore /\ env \in E2EEnvs

E2ENet(entries) ==
    AddNet(<<PageMiss, PageMiss, PageMiss, PageMiss>>, UploadsNet(env.source, entries))

\* step 1: "Add Channel" while the feed lists v1, v2, v3
E2EAdd ==
    /\ pc = 0
    /\ \E r \in {ui_add_channel(channels, videos, now, env.input, env.key,
                                E2ENet(env.uploads))} :
            /\ channels' = r.channels
            /\ videos' = r.videos
            /\ now' = r.now
            /\ last' = [op |-> "add", outcome |-> r.outcome, cid |-> r.cid,
                        n |-> r.n, listed |-> r.listed]
    /\ pc' = 1
    /\ UNCHANGED env

\* steps 2 and 4: "Check all channels now"; the feed has gained v4 by step 4
E2ECheck ==
    /\ pc \in {1, 3}
    /\ \E r \in {ui_check_updates(channels, videos, now, env.key,
                    [c \in {ChanA} |->
                        UploadsNet(env.source,
                                   IF pc = 1 THEN env.uploads
                                   ELSE InsertAt(env.uploads, env.at, E4))])} :
            /\ channels' = r.channels
            /\ videos' = r.videos
            /\ now' = r.now
            /\ last' = [op |-> "check", total |-> r.total, order |-> r.order,
                        fetched |-> r.fetched, counts |-> r.counts]
    /\ pc' = pc + 1
    /\ UNCHANGED env

\* step 3: "Mark seen" of the channel, or "Mark ALL unseen as seen"
E2EMarkSeen ==
    /\ pc = 2
    /\ videos' = mark_videos_seen(videos, IF env.scoped THEN ChanA ELSE <<>>)
    /\ last' = [op |-> "seen", cid |-> IF env.scoped THEN ChanA ELSE <<>>]
    /\ pc' = 3
    /\ UNCHANGED <<channels, now, env>>

NextE2E ==
    \/ E2EAdd
    \/ E2ECheck
    \/ E2EMarkSeen

SpecE2E == InitE2E /\ [][NextE2E]_vars

SeenOf(rows, ids) == {rows[i].seen : i \in {k \in 1..Len(rows) : rows[k].video_id \in ids}}

\* C4: adding channel UC1234567890123456789012 while its feed lists v1, v2,
\* v3 ingests the 3 as unseen; a check against the same feed ingests 0 and
\* changes no video row; after v1..v3 are marked seen, a check against the
\* feed that lists v4 as well ingests exactly 1 video, v4, unseen, and
\* v1..v3 stay seen.
C4_EndToEnd ==
    [][ /\ pc' = 1 =>
            /\ last'.outcome = "added"
            /\ last'.cid = ChanA
            /\ last'.n = 3
            /\ Len(videos') = 3
            /\ IdsOf(videos') = {"v1", "v2", "v3"}
            /\ \A i \in 1..3 : videos'[i].seen = 0 /\ videos'[i].channel_id = ChanA
        /\ pc' = 2 =>
            /\ last'.total = 0
            /\ videos' = videos
        /\ pc' = 3 =>
            /\ SeenOf(videos', {"v1", "v2", "v3"}) = {1}
        /\ pc' = 4 =>
            /\ last'.total = 1
            /\ Len(videos') = 4
            /\ \A i \in 1..3 : videos'[i] = videos[i]
            /\ videos'[4].video_id = "v4"
            /\ videos'[4].seen = 0
            /\ videos'[4].channel_id = ChanA
            /\ SeenOf(videos', {"v1", "v2", "v3"}) = {1}
      ]_vars

\* the scenario has run to its end
C4_Witness ==
    /\ pc = 4
    /\ last.op = "check"
    /\ last.total = 1
    /\ Len(videos) = 4
    /\ Len(channels) = 1

----------------------------------------------------------------------------
(* Two sessions on the one cached connection. Session 1 runs an add-channel *)
(* or a check-updates pass, one store operation at a time; session 2 presses*)
(* "Remove" for channel env.c at any point in between. Here pc holds the    *)
(* position of both sessions and the locals of session 1.                   *)

\* the store operations of one add-channel of channel c whose listing gave
\* the entries: add_channel, insert_videos, mark_channel_checked
Tracked(st, c, entries) ==
    [channels |-> mark_channel_checked(
                      add_channel(st.channels, c, LitChannelSpace \o c,
                                  LitChannelUrl \o c, st.now).channels,
                      c, st.now + 1 + Len(entries)),
     videos |-> insert_videos(st.videos, c, rss_records(entries, UiMaxResults, 1),
                              st.now + 1).videos,
     now |-> st.now + 2 + Len(entries)]

NothingTracked == [channels |-> <<>>, videos |-> <<>>, now |-> 1]

\* the store after ChanA and then ChanB were added, each with one upload
TrackedBoth == Tracked(Tracked(NothingTracked, ChanA, <<E1>>), ChanB, <<E2>>)

\* the store after the channel other than c was added
TrackedOther(c) ==
    IF c = ChanA
    THEN Tracked(NothingTracked, ChanB, <<E2>>)
    ELSE Tracked(NothingTracked, ChanA, <<E1>>)

\* what listing a channel's uploads gives while the sessions run
RaceNets ==
    [ChannelIds -> { [videoApi |-> ApiError, videoFeed |-> HttpError],
                     [videoApi |-> ApiError, videoFeed |-> UploadFeed(<<E3>>)],
                     [videoApi |-> ApiError, videoFeed |-> UploadFeed(<<E2, E1>>)] }]

RaceEnvs ==
    { [kind |-> k, c |-> c, key |-> "", nets |-> n] :
        k \in {"check", "add"}, c \in ChannelIds, n \in RaceNets }

RaceStart(e) == IF e.kind = "check" THEN TrackedBoth ELSE TrackedOther(e.c)

InitRace ==
    /\ env \in RaceEnvs
    /\ channels = RaceStart(env).channels
    /\ videos = RaceStart(env).videos
    /\ now = RaceStart(env).now
    /\ last = [op |-> "init"]
    /\ pc = [s1 |-> IF env.kind = "check" THEN "list" ELSE "add",
             listed |-> <<>>, i |-> 1, vids |-> <<>>,
             s2 |-> "idle", between |-> FALSE]

\* session 1, check-updates: chs = list_channels(conn)
S1List ==
    /\ pc.s1 = "list"
    /\ LET chs == list_channels(channels)
       IN  pc' = [pc EXCEPT !.listed = [k \in 1..Len(chs) |-> chs[k].channel_id],
                            !.s1 = IF Len(chs) = 0 THEN "done" ELSE "fetch"]
    /\ last' = [op |-> "list"]
    /\ UNCHANGED <<channels, videos, now, env>>

\* session 1, add-channel: the input is resolved, the title fetched and
\* add_channel called
S1AddChannel ==
    /\ pc.s1 = "add"
    /\ \E cid \in {resolve_channel_id(env.c, env.key,
                                      [page |-> AllMiss, search |-> ApiError]).result} :
         \E t \in {get_channel_title(cid, env.key, ApiError, HttpError).result} :
           \E r \in {add_channel(channels, cid, t, LitChannelUrl \o cid, now)} :
             /\ channels' = r.channels
             /\ pc' = [pc EXCEPT !.listed = <<cid>>,
                                 !.s1 = IF r.ok THEN "fetch" ELSE "done"]
    /\ now' = now + 1
    /\ last' = [op |-> "add_channel"]
    /\ UNCHANGED <<videos, env>>

\* session 1: vids = fetch_latest_videos(...) for the channel in hand
S1Fetch ==
    /\ pc.s1 = "fetch"
    /\ LET net == env.nets[pc.listed[pc.i]]
       IN  pc' = [pc EXCEPT !.vids = fetch_latest_videos(pc.listed[pc.i], env.key,
                                        UiMaxResults, net.videoApi, net.videoFeed).result,
                            !.s1 = "insert"]
    /\ last' = [op |-> "fetch"]
    /\ UNCHANGED <<channels, videos, now, env>>

\* session 1: insert_videos(conn, channel_id, vids)
S1Insert ==
    /\ pc.s1 = "insert"
    /\ \E r \in {insert_videos(videos, pc.listed[pc.i], pc.vids, now)} :
            /\ videos' = r.videos
            /\ last' = [op |-> "insert", inserted |-> r.inserted]
    /\ now' = now + Len(pc.vids)
    /\ pc' = [pc EXCEPT !.s1 = "mark"]
    /\ UNCHANGED <<channels, env>>

\* session 1: mark_channel_checked(conn, channel_id), and on to the next
\* listed channel
S1Mark ==
    /\ pc.s1 = "mark"
    /\ channels' = mark_channel_checked(channels, pc.listed[pc.i], now)
    /\ now' = now + 1
    /\ pc' = [pc EXCEPT !.vids = <<>>,
                        !.i = IF pc.i < Len(pc.listed) THEN pc.i + 1 ELSE pc.i,
                        !.s1 = IF pc.i < Len(pc.listed) THEN "fetch" ELSE "done"]
    /\ last' = [op |-> "mark"]
    /\ UNCHANGED <<videos, env>>

\* session 1 holds channel c in its list and has not inserted its videos yet
BeforeInsertOf(c) ==
    /\ pc.s1 \in {"fetch", "insert", "mark"}
    /\ \E k \in 1..Len(pc.listed) :
            /\ pc.listed[k] = c
            /\ k > pc.i \/ (k = pc.i /\ pc.s1 \in {"fetch", "insert"})

\* session 2: remove_channel(conn, env.c), both DELETE statements at once
S2Remove ==
    /\ pc.s2 = "idle"
    /\ \E r \in {remove_channel(channels, videos, env.c)} :
            /\ channels' = r.channels
            /\ videos' = r.videos
    /\ pc' = [pc EXCEPT !.s2 = "done", !.between = BeforeInsertOf(env.c)]
    /\ last' = [op |-> "remove", cid |-> env.c]
    /\ UNCHANGED <<now, env>>

NextRace ==
    \/ S1List
    \/ S1AddChannel
    \/ S1Fetch
    \/ S1Insert
    \/ S1Mark
    \/ S2Remove

SpecRace == InitRace /\ [][NextRace]_vars

\* C15: when remove-channel(c) of one session runs between the channel
\* listing (or the add_channel) and the video insert of another session's
\* pass, no video row with channel_id c is left once both have finished.
C15_NoRowsAfterRacingRemove ==
    (pc.s1 = "done" /\ pc.s2 = "done" /\ pc.between) =>
        \A i \in 1..Len(videos) : videos[i].channel_id # env.c

====
